---- MODULE Spec2Model ----
(***************************************************************************)
(* Reference-counted shared_ptr / weak_ptr with a polymorphic control      *)
(* block (src/shared-ptr.h, src/shared-ptr.cpp).                            *)
(*                                                                         *)
(* Handles live in named slots: a constructor turns a dead slot into a     *)
(* live handle, a destructor turns it back.  Temporaries created inside an *)
(* operation (the copy-and-swap temporaries) live and die inside the       *)
(* action that models the operation.  The only point where user code runs  *)
(* in the middle of an operation is the destruction hook (delete_data):    *)
(* `hook` is the block whose hook is currently running, 0 when none is.    *)
(***************************************************************************)
EXTENDS Integers, Sequences, FiniteSets

\* ---------------------------------------------------------------- bounds
NumShared == 2
NumWeak == 2
MaxBlocks == 2
MaxAddr == 1
\* std::size_t counters are modelled at a reduced width of SizeBits bits
SizeBits == 8

SH == 1..NumShared
WK == 1..NumWeak
Blocks == 1..MaxBlocks
Null == 0
SizeMod == 2 ^ SizeBits
\* The code never inspects an observer pointer (no branch depends on ptr_), so addresses are
\* plain data: objects user code allocates and hands over as raw pointers, and sub-objects
\* and other addresses user code hands to the aliasing constructors.
RawAddrs == 1..MaxAddr
AliasAddrs == (MaxAddr + 1)..(2 * MaxAddr)

VARIABLES sh, wk, blk, uaf, hook, raised, orphan, last, thr

vars == <<sh, wk, blk, uaf, hook, raised, orphan, last, thr>>

\* ------------------------------------------------------- handle state
\* shared_ptr(): ptr_(nullptr), cb_(nullptr); a dead slot is kept in the same shape
SharedDefault == [live |-> TRUE, ptr |-> Null, cb |-> Null]

WeakDefault == [live |-> TRUE, ptr |-> Null, cb |-> Null]

Dead == [live |-> FALSE, ptr |-> Null, cb |-> Null]

Handle(p, c) == [live |-> TRUE, ptr |-> p, cb |-> c]

\* ------------------------------------------------------ control block
\* strong_refs_{1}, weak_refs_{1}
InitialStrong == 1

InitialWeak == 1

\* st: none (never allocated), live, freed (delete this) or unwound (storage returned by a
\* new-expression whose constructor threw); calls: the arguments delete_data has destroyed so
\* far; frees: how often delete this ran; owns: the object whose ownership the block was given
NoBlock == [st |-> "none", kind |-> "none", data |-> Null, strong |-> 0, weak |-> 0, calls |-> <<>>, frees |-> 0, owns |-> Null]

\* mem_control_block whose constructor leaves data_ value-initialised
MemControlBlockNoData(r) == [st |-> "live", kind |-> "mem", data |-> Null, strong |-> InitialStrong, weak |-> InitialWeak, calls |-> <<>>, frees |-> 0, owns |-> Null]

\* mem_control_block(ptr, deleter): data_(ptr)
MemControlBlock(r) == [st |-> "live", kind |-> "mem", data |-> r, strong |-> InitialStrong, weak |-> InitialWeak, calls |-> <<>>, frees |-> 0, owns |-> Null]

\* inplace_control_block::get_ptr: the address of the embedded object of block b
GetPtr(b) == 2 * MaxAddr + b

InplaceControlBlock(b) == [st |-> "live", kind |-> "inplace", data |-> GetPtr(b), strong |-> InitialStrong, weak |-> InitialWeak, calls |-> <<>>, frees |-> 0, owns |-> Null]

\* x++ and --x on std::size_t
Inc(x) == (x + 1) % SizeMod

Dec(x) == (x + SizeMod - 1) % SizeMod

\* the block id the next successful allocation returns
CanAlloc == \E b \in Blocks : blk[b].st = "none"

NewBlock == CHOOSE b \in Blocks : blk[b].st = "none" /\ \A c \in Blocks : c < b => blk[c].st # "none"

\* M is the heap seen by an operation in progress: [blk, uaf, hook]
Heap == [blk |-> blk, uaf |-> uaf, hook |-> hook]

\* every member call on a block dereferences it: on a freed block that is a use after free
Touch(M, b) == [M EXCEPT !.uaf = @ \/ M.blk[b].st # "live"]

AddStrongRef(M, b) == [Touch(M, b) EXCEPT !.blk[b].strong = Inc(@)]

AddWeakRef(M, b) == [Touch(M, b) EXCEPT !.blk[b].weak = Inc(@)]

GetStrongRefs(M, b) == M.blk[b].strong

\* delete_data: deleter_(data_) resp. destroy_at(&storage_.data); the argument it is run on
DeleteData(B) == B.data

\* release_weak_ref with the test on the value before the decrement: weak_refs_-- == 0
ReleaseWeakRefPostDec(M, b) ==
  LET T == Touch(M, b)
      n == Dec(T.blk[b].weak)
  IN  IF T.blk[b].weak = 0
      THEN [T EXCEPT !.blk[b].weak = n, !.blk[b].st = "freed", !.blk[b].frees = @ + 1]
      ELSE [T EXCEPT !.blk[b].weak = n]

\* release_weak_ref: if (--weak_refs_ == 0) delete this;
ReleaseWeakRef(M, b) ==
  LET T == Touch(M, b)
      n == Dec(T.blk[b].weak)
  IN  IF n = 0
      THEN [T EXCEPT !.blk[b].weak = n, !.blk[b].st = "freed", !.blk[b].frees = @ + 1]
      ELSE [T EXCEPT !.blk[b].weak = n]

\* release_strong_ref with the test on the value before the decrement: strong_refs_-- == 0
ReleaseStrongRefPostDec(M, b) ==
  LET T == Touch(M, b)
      n == Dec(T.blk[b].strong)
  IN  IF T.blk[b].strong = 0
      THEN [T EXCEPT !.blk[b].strong = n, !.blk[b].calls = Append(@, DeleteData(T.blk[b])), !.hook = b]
      ELSE [T EXCEPT !.blk[b].strong = n]

\* release_strong_ref with release_weak_ref() outside the if: every strong release drops a weak one
ReleaseStrongRefAlwaysWeak(M, b) ==
  LET T == Touch(M, b)
      n == Dec(T.blk[b].strong)
  IN  IF n = 0
      THEN [T EXCEPT !.blk[b].strong = n, !.blk[b].calls = Append(@, DeleteData(T.blk[b])), !.hook = b]
      ELSE ReleaseWeakRef([T EXCEPT !.blk[b].strong = n], b)

\* release_strong_ref with the two calls the other way round: release_weak_ref(); delete_data();
ReleaseStrongRefWeakFirst(M, b) ==
  LET T == Touch(M, b)
      n == Dec(T.blk[b].strong)
  IN  IF n = 0
      THEN LET W == ReleaseWeakRef([T EXCEPT !.blk[b].strong = n], b)
           IN  [W EXCEPT !.blk[b].calls = Append(@, DeleteData(W.blk[b])), !.hook = b]
      ELSE [T EXCEPT !.blk[b].strong = n]

\* release_strong_ref that decrements only after the hook: if (strong_refs_ == 1) { delete_data();
\* --strong_refs_; ... }: the count is still 1 while the hook runs
ReleaseStrongRefDecAfterHook(M, b) ==
  LET T == Touch(M, b)
      n == Dec(T.blk[b].strong)
  IN  IF n = 0
      THEN [T EXCEPT !.blk[b].calls = Append(@, DeleteData(T.blk[b])), !.hook = b]
      ELSE [T EXCEPT !.blk[b].strong = n]

\* release_strong_ref up to the call of delete_data: if (--strong_refs_ == 0) { delete_data(); ...
\* the hook is entered (hook = b); HookReturn models the rest of the function
ReleaseStrongRef(M, b) ==
  LET T == Touch(M, b)
      n == Dec(T.blk[b].strong)
  IN  IF n = 0
      THEN [T EXCEPT !.blk[b].strong = n, !.blk[b].calls = Append(@, DeleteData(T.blk[b])), !.hook = b]
      ELSE [T EXCEPT !.blk[b].strong = n]

\* if (cb_) cb_->release_strong_ref();  /  if (cb_) cb_->add_strong_ref();  and the weak twins
ReleaseStrongIf(M, c) == IF c # Null THEN ReleaseStrongRef(M, c) ELSE M

\* the private constructor without its add_strong_ref
AddStrongIfNever(M, c) == M

AddStrongIf(M, c) == IF c # Null THEN AddStrongRef(M, c) ELSE M

ReleaseWeakIf(M, c) == IF c # Null THEN ReleaseWeakRef(M, c) ELSE M

\* the private weak_ptr constructor without its add_weak_ref
AddWeakIfNever(M, c) == M

AddWeakIf(M, c) == IF c # Null THEN AddWeakRef(M, c) ELSE M

\* use_count(): cb_ ? cb_->get_strong_refs() : 0
UseCount(h) == IF h.cb # Null THEN GetStrongRefs(Heap, h.cb) ELSE 0

\* get()
Get(h) == h.ptr

\* the record of the operation that ran last: its name, the handle it ran on or built (dst),
\* its source handle (src), its address argument (arg) and what dst was before it (old)
Op(name, dst, src, arg, old) == [op |-> name, dst |-> dst, src |-> src, arg |-> arg, old |-> old]

\* an operation that completes normally
Done(shn, wkn, M, lst) ==
  /\ sh' = shn
  /\ wk' = wkn
  /\ blk' = M.blk
  /\ uaf' = M.uaf
  /\ hook' = M.hook
  /\ raised' = "none"
  /\ orphan' = <<>>
  /\ last' = lst
  /\ UNCHANGED thr

\* an operation that leaves by an exception e after running the deleter on the pointers in del
Throw(e, del, lst) ==
  /\ raised' = e
  /\ orphan' = del
  /\ last' = lst
  /\ UNCHANGED <<sh, wk, blk, uaf, hook, thr>>

\* the threads of the unsynchronized program: thread t works on its own handles sh[t] and wk[t];
\* pc is the thread's position: idle, lock (inside lock(), between the read of the strong count
\* and the construction of the result), hook (inside release_strong_ref, with delete_data
\* running); seen is the strong count lock() read, b the block whose hook the thread runs
Threads == SH \cap WK

Idle == [pc |-> "idle", seen |-> 0, b |-> Null]

\* the sequential program runs on one thread, which is never in the middle of an operation
\* when the next one starts
Init ==
  /\ sh = [s \in SH |-> Dead]
  /\ wk = [w \in WK |-> Dead]
  /\ blk = [b \in Blocks |-> NoBlock]
  /\ uaf = FALSE
  /\ hook = Null
  /\ raised = "none"
  /\ orphan = <<>>
  /\ last = Op("init", Null, Null, Null, Dead)
  /\ thr = [t \in Threads |-> Idle]

\* ------------------------------------------------ shared_ptr operations
\* shared_ptr() / shared_ptr(nullptr_t)
CtorDefault(s) ==
  /\ hook = Null
  /\ ~sh[s].live
  /\ Done([sh EXCEPT ![s] = SharedDefault], wk, Heap, Op("CtorDefault", s, Null, Null, Dead))

\* the constructor without its catch handler: the pointer is dropped
CtorRawCatchLeak(r) == <<>>

\* the deleter calls of the catch handler of shared_ptr(Y* ptr, Deleter deleter): deleter(ptr); throw;
CtorRawCatch(r) == <<r>>

\* shared_ptr(Y* ptr, Deleter deleter) and shared_ptr(Y* ptr); allocOk: whether new succeeds
CtorRaw(s, r, allocOk) ==
  /\ hook = Null
  /\ ~sh[s].live
  /\ IF allocOk
     THEN /\ CanAlloc
          /\ LET b == NewBlock
                 M == [Heap EXCEPT !.blk[b] = [MemControlBlock(r) EXCEPT !.owns = r]]
             IN  Done([sh EXCEPT ![s] = Handle(r, b)], wk, M, Op("CtorRaw", s, Null, r, Dead))
     ELSE Throw("bad_alloc", CtorRawCatch(r), Op("CtorRaw", s, Null, r, Dead))

\* make_shared whose storage union destroys its member: a throwing constructor of T is followed
\* by destroy_at on the object that was never completed
MakeSharedUnwindDestroys(s, allocOk, ctorOk) ==
  /\ hook = Null
  /\ ~sh[s].live
  /\ IF ~allocOk
     THEN Throw("bad_alloc", <<>>, Op("MakeShared", s, Null, Null, Dead))
     ELSE /\ CanAlloc
          /\ LET b == NewBlock
             IN  IF ctorOk
                 THEN Done([sh EXCEPT ![s] = Handle(GetPtr(b), b)], wk,
                           [Heap EXCEPT !.blk[b] = [InplaceControlBlock(b) EXCEPT !.owns = GetPtr(b)]],
                           Op("MakeShared", s, Null, Null, Dead))
                 ELSE /\ blk' = [blk EXCEPT ![b] = [InplaceControlBlock(b) EXCEPT !.st = "unwound", !.calls = <<GetPtr(b)>>]]
                      /\ raised' = "ctor"
                      /\ orphan' = <<>>
                      /\ last' = Op("MakeShared", s, Null, Null, Dead)
                      /\ UNCHANGED <<sh, wk, uaf, hook, thr>>

\* make_shared returning through the private (ptr, cb) constructor, which adds a strong reference
\* on top of the block's initial one
MakeSharedAddsRef(s, allocOk, ctorOk) ==
  /\ hook = Null
  /\ ~sh[s].live
  /\ IF ~allocOk
     THEN Throw("bad_alloc", <<>>, Op("MakeShared", s, Null, Null, Dead))
     ELSE /\ CanAlloc
          /\ LET b == NewBlock
             IN  IF ctorOk
                 THEN Done([sh EXCEPT ![s] = Handle(GetPtr(b), b)], wk,
                           AddStrongRef([Heap EXCEPT !.blk[b] = [InplaceControlBlock(b) EXCEPT !.owns = GetPtr(b)]], b),
                           Op("MakeShared", s, Null, Null, Dead))
                 ELSE /\ blk' = [blk EXCEPT ![b] = [InplaceControlBlock(b) EXCEPT !.st = "unwound"]]
                      /\ raised' = "ctor"
                      /\ orphan' = <<>>
                      /\ last' = Op("MakeShared", s, Null, Null, Dead)
                      /\ UNCHANGED <<sh, wk, uaf, hook, thr>>

\* make_shared: new inplace_control_block<T>(args...), then shared_ptr(inplace_control_block<T>* cb):
\* ptr_(cb->get_ptr()), cb_(cb), no add_strong_ref.  allocOk: whether new succeeds; ctorOk: whether
\* T's constructor returns.  A throwing constructor unwinds the new-expression: the storage goes
\* back without delete_data and without a handle.
MakeShared(s, allocOk, ctorOk) ==
  /\ hook = Null
  /\ ~sh[s].live
  /\ IF ~allocOk
     THEN Throw("bad_alloc", <<>>, Op("MakeShared", s, Null, Null, Dead))
     ELSE /\ CanAlloc
          /\ LET b == NewBlock
             IN  IF ctorOk
                 THEN Done([sh EXCEPT ![s] = Handle(GetPtr(b), b)], wk,
                           [Heap EXCEPT !.blk[b] = [InplaceControlBlock(b) EXCEPT !.owns = GetPtr(b)]],
                           Op("MakeShared", s, Null, Null, Dead))
                 ELSE /\ blk' = [blk EXCEPT ![b] = [InplaceControlBlock(b) EXCEPT !.st = "unwound"]]
                      /\ raised' = "ctor"
                      /\ orphan' = <<>>
                      /\ last' = Op("MakeShared", s, Null, Null, Dead)
                      /\ UNCHANGED <<sh, wk, uaf, hook, thr>>

\* the aliasing copy constructor taking the other handle's block without add_strong_ref
CtorAliasCopyNoRef(s, t, p) ==
  /\ hook = Null
  /\ ~sh[s].live
  /\ sh[t].live
  /\ Done([sh EXCEPT ![s] = Handle(p, sh[t].cb)], wk, Heap, Op("CtorAliasCopy", s, t, p, Dead))

\* private shared_ptr(T* ptr, control_block_t* cb): ptr_(ptr), cb_(cb), add_strong_ref if cb
\* reached through the aliasing copy constructor shared_ptr(const shared_ptr<Y>& other, T* ptr)
CtorAliasCopy(s, t, p) ==
  /\ hook = Null
  /\ ~sh[s].live
  /\ sh[t].live
  /\ Done([sh EXCEPT ![s] = Handle(p, sh[t].cb)], wk, AddStrongIf(Heap, sh[t].cb),
          Op("CtorAliasCopy", s, t, p, Dead))

\* shared_ptr(const shared_ptr& other): shared_ptr(other, other.ptr_), also the converting copy
CtorCopy(s, t) ==
  /\ hook = Null
  /\ ~sh[s].live
  /\ sh[t].live
  /\ Done([sh EXCEPT ![s] = Handle(sh[t].ptr, sh[t].cb)], wk, AddStrongIf(Heap, sh[t].cb),
          Op("CtorCopy", s, t, Null, Dead))

\* the aliasing move constructor without other.ptr_ = nullptr
CtorAliasMoveKeepsPtr(s, t, p) ==
  /\ hook = Null
  /\ ~sh[s].live
  /\ sh[t].live
  /\ Done([sh EXCEPT ![s] = Handle(p, sh[t].cb), ![t] = Handle(sh[t].ptr, Null)], wk, Heap,
          Op("CtorAliasMove", s, t, p, Dead))

\* shared_ptr(shared_ptr<Y>&& other, T* ptr): ptr_(ptr), cb_(exchange(other.cb_, nullptr)); other.ptr_ = nullptr
CtorAliasMove(s, t, p) ==
  /\ hook = Null
  /\ ~sh[s].live
  /\ sh[t].live
  /\ Done([sh EXCEPT ![s] = Handle(p, sh[t].cb), ![t] = Handle(Null, Null)], wk, Heap,
          Op("CtorAliasMove", s, t, p, Dead))

\* shared_ptr(shared_ptr&& other): shared_ptr(std::move(other), other.ptr_), also the converting move
CtorMove(s, t) ==
  /\ hook = Null
  /\ ~sh[s].live
  /\ sh[t].live
  /\ Done([sh EXCEPT ![s] = Handle(sh[t].ptr, sh[t].cb), ![t] = Handle(Null, Null)], wk, Heap,
          Op("CtorMove", s, t, Null, Dead))

\* copy assignment written as a plain member copy: the old block is never released
AssignCopyNoRelease(s, t) ==
  /\ hook = Null
  /\ sh[s].live
  /\ sh[t].live
  /\ Done([sh EXCEPT ![s] = Handle(sh[t].ptr, sh[t].cb)], wk, AddStrongIf(Heap, sh[t].cb),
          Op("AssignCopy", s, t, Null, sh[s]))

\* copy assignment written as release-then-acquire without a self-assignment test:
\* if (cb_) cb_->release_strong_ref(); ptr_ = other.ptr_; cb_ = other.cb_; if (cb_) cb_->add_strong_ref();
AssignCopyReleaseFirst(s, t) ==
  /\ hook = Null
  /\ sh[s].live
  /\ sh[t].live
  /\ LET M1 == ReleaseStrongIf(Heap, sh[s].cb)
     IN  Done([sh EXCEPT ![s] = Handle(sh[t].ptr, sh[t].cb)], wk, AddStrongIf(M1, sh[t].cb),
              Op("AssignCopy", s, t, Null, sh[s]))

\* operator=(const shared_ptr& other): shared_ptr(other).swap(*this); the temporary copy adds a
\* strong reference, the swap hands it this handle's old state, its destructor releases that
AssignCopy(s, t) ==
  /\ hook = Null
  /\ sh[s].live
  /\ sh[t].live
  /\ LET tmp == Handle(sh[t].ptr, sh[t].cb)
         M1 == AddStrongIf(Heap, tmp.cb)
         old == sh[s]
     IN  Done([sh EXCEPT ![s] = tmp], wk, ReleaseStrongIf(M1, old.cb), Op("AssignCopy", s, t, Null, old))

\* move assignment that copies: the temporary is built by the copy constructor, other keeps its state
AssignMoveAsCopy(s, t) ==
  /\ hook = Null
  /\ sh[s].live
  /\ sh[t].live
  /\ LET tmp == Handle(sh[t].ptr, sh[t].cb)
         M1 == AddStrongIf(Heap, tmp.cb)
     IN  Done([sh EXCEPT ![s] = tmp], wk, ReleaseStrongIf(M1, sh[s].cb), Op("AssignMove", s, t, Null, sh[s]))

\* operator=(shared_ptr&& other): shared_ptr(std::move(other)).swap(*this); the temporary takes
\* other's state and nulls other, the swap hands it this handle's state, its destructor releases that
AssignMove(s, t) ==
  /\ hook = Null
  /\ sh[s].live
  /\ sh[t].live
  /\ LET tmp == Handle(sh[t].ptr, sh[t].cb)
         sh1 == [sh EXCEPT ![t] = Handle(Null, Null)]
         old == sh1[s]
     IN  Done([sh1 EXCEPT ![s] = tmp], wk, ReleaseStrongIf(Heap, old.cb), Op("AssignMove", s, t, Null, sh[s]))

\* reset(): shared_ptr().swap(*this);
Reset(s) ==
  /\ hook = Null
  /\ sh[s].live
  /\ Done([sh EXCEPT ![s] = Handle(Null, Null)], wk, ReleaseStrongIf(Heap, sh[s].cb),
          Op("Reset", s, Null, Null, sh[s]))

\* reset(new_ptr) written as release-then-construct: the old reference is dropped before the
\* replacement's control block is allocated
ResetRawReleaseFirst(s, r, allocOk) ==
  /\ hook = Null
  /\ sh[s].live
  /\ IF allocOk
     THEN /\ CanAlloc
          /\ LET b == NewBlock
                 M == [Heap EXCEPT !.blk[b] = [MemControlBlock(r) EXCEPT !.owns = r]]
             IN  Done([sh EXCEPT ![s] = Handle(r, b)], wk, ReleaseStrongIf(M, sh[s].cb),
                      Op("ResetRaw", s, Null, r, sh[s]))
     ELSE LET M == ReleaseStrongIf(Heap, sh[s].cb)
          IN  /\ sh' = [sh EXCEPT ![s] = Handle(Null, Null)]
              /\ blk' = M.blk
              /\ uaf' = M.uaf
              /\ hook' = M.hook
              /\ raised' = "bad_alloc"
              /\ orphan' = CtorRawCatch(r)
              /\ last' = Op("ResetRaw", s, Null, r, sh[s])
              /\ UNCHANGED <<wk, thr>>

\* reset(Y* new_ptr) / reset(Y* new_ptr, Deleter deleter): shared_ptr(new_ptr, deleter).swap(*this);
ResetRaw(s, r, allocOk) ==
  /\ hook = Null
  /\ sh[s].live
  /\ IF allocOk
     THEN /\ CanAlloc
          /\ LET b == NewBlock
                 M == [Heap EXCEPT !.blk[b] = [MemControlBlock(r) EXCEPT !.owns = r]]
             IN  Done([sh EXCEPT ![s] = Handle(r, b)], wk, ReleaseStrongIf(M, sh[s].cb),
                      Op("ResetRaw", s, Null, r, sh[s]))
     ELSE Throw("bad_alloc", CtorRawCatch(r), Op("ResetRaw", s, Null, r, sh[s]))

\* swap(shared_ptr& other): std::swap(ptr_, other.ptr_); std::swap(cb_, other.cb_);
Swap(s, t) ==
  /\ hook = Null
  /\ sh[s].live
  /\ sh[t].live
  /\ Done([sh EXCEPT ![s] = sh[t], ![t] = sh[s]], wk, Heap, Op("Swap", s, t, Null, sh[s]))

\* ~shared_ptr(): if (cb_) cb_->release_strong_ref();
Dtor(s) ==
  /\ hook = Null
  /\ sh[s].live
  /\ Done([sh EXCEPT ![s] = Dead], wk, ReleaseStrongIf(Heap, sh[s].cb), Op("Dtor", s, Null, Null, sh[s]))

\* -------------------------------------------------- weak_ptr operations
\* weak_ptr()
WCtorDefault(w) ==
  /\ hook = Null
  /\ ~wk[w].live
  /\ Done(sh, [wk EXCEPT ![w] = WeakDefault], Heap, Op("WCtorDefault", w, Null, Null, Dead))

\* weak_ptr(const shared_ptr<Y>& other): weak_ptr(other.ptr_, other.cb_), add_weak_ref if cb
WCtorShared(w, s) ==
  /\ hook = Null
  /\ ~wk[w].live
  /\ sh[s].live
  /\ Done(sh, [wk EXCEPT ![w] = Handle(sh[s].ptr, sh[s].cb)], AddWeakIf(Heap, sh[s].cb),
          Op("WCtorShared", w, s, Null, Dead))

\* weak_ptr(const weak_ptr& other): weak_ptr(other.ptr_, other.cb_), also the converting copy
WCtorCopy(w, v) ==
  /\ hook = Null
  /\ ~wk[w].live
  /\ wk[v].live
  /\ Done(sh, [wk EXCEPT ![w] = Handle(wk[v].ptr, wk[v].cb)], AddWeakIf(Heap, wk[v].cb),
          Op("WCtorCopy", w, v, Null, Dead))

\* weak_ptr(weak_ptr&& other): ptr_(exchange(other.ptr_, nullptr)), cb_(exchange(other.cb_, nullptr))
WCtorMove(w, v) ==
  /\ hook = Null
  /\ ~wk[w].live
  /\ wk[v].live
  /\ Done(sh, [wk EXCEPT ![w] = Handle(wk[v].ptr, wk[v].cb), ![v] = Handle(Null, Null)], Heap,
          Op("WCtorMove", w, v, Null, Dead))

\* weak_ptr::operator=(const shared_ptr<Y>& other): weak_ptr(other).swap(*this);
WAssignShared(w, s) ==
  /\ hook = Null
  /\ wk[w].live
  /\ sh[s].live
  /\ LET tmp == Handle(sh[s].ptr, sh[s].cb)
         M1 == AddWeakIf(Heap, tmp.cb)
     IN  Done(sh, [wk EXCEPT ![w] = tmp], ReleaseWeakIf(M1, wk[w].cb), Op("WAssignShared", w, s, Null, wk[w]))

\* weak_ptr::operator=(const weak_ptr& other): weak_ptr(other).swap(*this);
WAssignCopy(w, v) ==
  /\ hook = Null
  /\ wk[w].live
  /\ wk[v].live
  /\ LET tmp == Handle(wk[v].ptr, wk[v].cb)
         M1 == AddWeakIf(Heap, tmp.cb)
     IN  Done(sh, [wk EXCEPT ![w] = tmp], ReleaseWeakIf(M1, wk[w].cb), Op("WAssignCopy", w, v, Null, wk[w]))

\* weak_ptr::operator=(weak_ptr&& other): weak_ptr(std::move(other)).swap(*this);
WAssignMove(w, v) ==
  /\ hook = Null
  /\ wk[w].live
  /\ wk[v].live
  /\ LET tmp == Handle(wk[v].ptr, wk[v].cb)
         wk1 == [wk EXCEPT ![v] = Handle(Null, Null)]
         old == wk1[w]
     IN  Done(sh, [wk1 EXCEPT ![w] = tmp], ReleaseWeakIf(Heap, old.cb), Op("WAssignMove", w, v, Null, wk[w]))

\* lock() testing only the block pointer, not the strong count
LockFailsNoExpiry(M, h) == h.cb = Null

\* the handle lock() returns: if (!cb_ || cb_->get_strong_refs() == 0) return shared_ptr<T>();
\* return shared_ptr<T>(ptr_, cb_);
LockFails(M, h) == h.cb = Null \/ GetStrongRefs(M, h.cb) = 0

\* shared_ptr<T> s = w.lock(); user code may call it from inside a destruction hook
Lock(s, w) ==
  /\ ~sh[s].live
  /\ wk[w].live
  /\ LET h == wk[w]
         M0 == IF h.cb # Null THEN Touch(Heap, h.cb) ELSE Heap
     IN  IF LockFails(M0, h)
         THEN Done([sh EXCEPT ![s] = SharedDefault], wk, M0, Op("Lock", s, w, Null, Dead))
         ELSE Done([sh EXCEPT ![s] = Handle(h.ptr, h.cb)], wk, AddStrongIf(M0, h.cb),
                   Op("Lock", s, w, Null, Dead))

\* weak_ptr::reset(): weak_ptr().swap(*this); user code may call it from inside a destruction hook
WReset(w) ==
  /\ wk[w].live
  /\ Done(sh, [wk EXCEPT ![w] = Handle(Null, Null)], ReleaseWeakIf(Heap, wk[w].cb),
          Op("WReset", w, Null, Null, wk[w]))

\* weak_ptr::swap(weak_ptr& other)
WSwap(w, v) ==
  /\ hook = Null
  /\ wk[w].live
  /\ wk[v].live
  /\ Done(sh, [wk EXCEPT ![w] = wk[v], ![v] = wk[w]], Heap, Op("WSwap", w, v, Null, wk[w]))

\* ~weak_ptr(): if (cb_) cb_->release_weak_ref(); user code may run it from inside a destruction hook
WDtor(w) ==
  /\ wk[w].live
  /\ Done(sh, [wk EXCEPT ![w] = Dead], ReleaseWeakIf(Heap, wk[w].cb), Op("WDtor", w, Null, Null, wk[w]))

\* the rest of release_strong_ref once delete_data() has returned: release_weak_ref();
HookReturn ==
  /\ hook # Null
  /\ LET M == ReleaseWeakRef(Heap, hook)
     IN  /\ blk' = M.blk
         /\ uaf' = M.uaf
         /\ hook' = Null
         /\ UNCHANGED <<sh, wk, raised, orphan, last, thr>>

Next ==
  \/ \E s \in SH : CtorDefault(s)
  \/ \E s \in SH, r \in RawAddrs, ok \in BOOLEAN : CtorRaw(s, r, ok)
  \/ \E s \in SH, aok, cok \in BOOLEAN : MakeShared(s, aok, cok)
  \/ \E s, t \in SH, p \in AliasAddrs : CtorAliasCopy(s, t, p)
  \/ \E s, t \in SH : CtorCopy(s, t)
  \/ \E s, t \in SH, p \in AliasAddrs : CtorAliasMove(s, t, p)
  \/ \E s, t \in SH : CtorMove(s, t)
  \/ \E s, t \in SH : AssignCopy(s, t)
  \/ \E s, t \in SH : AssignMove(s, t)
  \/ \E s \in SH : Reset(s)
  \/ \E s \in SH, r \in RawAddrs, ok \in BOOLEAN : ResetRaw(s, r, ok)
  \/ \E s, t \in SH : Swap(s, t)
  \/ \E s \in SH : Dtor(s)
  \/ \E w \in WK : WCtorDefault(w)
  \/ \E w \in WK, s \in SH : WCtorShared(w, s)
  \/ \E w, v \in WK : WCtorCopy(w, v)
  \/ \E w, v \in WK : WCtorMove(w, v)
  \/ \E w \in WK, s \in SH : WAssignShared(w, s)
  \/ \E w, v \in WK : WAssignCopy(w, v)
  \/ \E w, v \in WK : WAssignMove(w, v)
  \/ \E s \in SH, w \in WK : Lock(s, w)
  \/ \E w \in WK : WReset(w)
  \/ \E w, v \in WK : WSwap(w, v)
  \/ \E w \in WK : WDtor(w)
  \/ HookReturn

Spec == Init /\ [][Next]_vars

\* ------------------------------------- two threads, no synchronization
\* The counters are plain std::size_t and lock() is a read followed by a separate
\* add_strong_ref.  Each thread runs the operations below on its own handles; the steps of
\* different threads interleave freely.  A step is one access to a counter, as the statements
\* of the source order them: lock() is its test (MTLockRead) and then its return statement
\* (MTLockAdd); ~shared_ptr is the decrement with the entry into delete_data (MTDtor) and then
\* the release_weak_ref after the hook (MTHookReturn).  A run is followed until it touches a
\* freed block.
MTDone(shn, wkn, M, thrn, lst) ==
  /\ sh' = shn
  /\ wk' = wkn
  /\ blk' = M.blk
  /\ uaf' = M.uaf
  /\ hook' = Null
  /\ raised' = "none"
  /\ orphan' = <<>>
  /\ last' = lst
  /\ thr' = thrn

\* the threads start after one thread has built the handles: a block from shared_ptr(new T)
\* or make_shared, strong handles in the slots S, weak handles in the slots W
MTInit ==
  \E S \in SUBSET Threads, W \in SUBSET Threads, r \in RawAddrs, inplace \in BOOLEAN :
    /\ S # {}
    /\ LET b == 1
           p == IF inplace THEN GetPtr(b) ELSE r
           B == IF inplace THEN InplaceControlBlock(b) ELSE MemControlBlock(r)
       IN  /\ sh = [s \in SH |-> IF s \in S THEN Handle(p, b) ELSE Dead]
           /\ wk = [w \in WK |-> IF w \in W THEN Handle(p, b) ELSE Dead]
           /\ blk = [c \in Blocks |->
                       IF c = b
                       THEN [B EXCEPT !.owns = p, !.strong = Cardinality(S), !.weak = Cardinality(W) + InitialWeak]
                       ELSE NoBlock]
    /\ uaf = FALSE
    /\ hook = Null
    /\ raised = "none"
    /\ orphan = <<>>
    /\ last = Op("init", Null, Null, Null, Dead)
    /\ thr = [t \in Threads |-> Idle]

\* lock(), first half: if (!cb_ || cb_->get_strong_refs() == 0); the thread keeps what it read
MTLockRead(t) ==
  /\ ~uaf
  /\ thr[t].pc = "idle"
  /\ wk[t].live
  /\ ~sh[t].live
  /\ LET h == wk[t]
         M0 == IF h.cb # Null THEN Touch(Heap, h.cb) ELSE Heap
         seen == IF LockFails(M0, h) THEN 0 ELSE GetStrongRefs(M0, h.cb)
     IN  MTDone(sh, wk, M0, [thr EXCEPT ![t] = [pc |-> "lock", seen |-> seen, b |-> Null]],
                Op("MTLockRead", t, t, Null, Dead))

\* lock() as one compare-and-swap style operation: the count is tested again where it is raised
MTLockAddRechecks(t) ==
  /\ ~uaf
  /\ thr[t].pc = "lock"
  /\ LET h == wk[t]
     IN  IF thr[t].seen = 0 \/ LockFails(Heap, h)
         THEN MTDone([sh EXCEPT ![t] = SharedDefault], wk, Heap, [thr EXCEPT ![t] = Idle],
                     Op("MTLockAdd", t, t, Null, Dead))
         ELSE MTDone([sh EXCEPT ![t] = Handle(h.ptr, h.cb)], wk, AddStrongIf(Heap, h.cb),
                     [thr EXCEPT ![t] = Idle], Op("MTLockAdd", t, t, Null, Dead))

\* lock(), second half: return shared_ptr<T>() if the test failed, else
\* return shared_ptr<T>(ptr_, cb_), whose constructor calls add_strong_ref on whatever the
\* count is by now
MTLockAdd(t) ==
  /\ ~uaf
  /\ thr[t].pc = "lock"
  /\ LET h == wk[t]
     IN  IF thr[t].seen = 0
         THEN MTDone([sh EXCEPT ![t] = SharedDefault], wk, Heap, [thr EXCEPT ![t] = Idle],
                     Op("MTLockAdd", t, t, Null, Dead))
         ELSE MTDone([sh EXCEPT ![t] = Handle(h.ptr, h.cb)], wk, AddStrongIf(Heap, h.cb),
                     [thr EXCEPT ![t] = Idle], Op("MTLockAdd", t, t, Null, Dead))

\* ~shared_ptr() up to the call of delete_data: if (cb_) cb_->release_strong_ref();
MTDtor(t) ==
  /\ ~uaf
  /\ thr[t].pc = "idle"
  /\ sh[t].live
  /\ LET M == ReleaseStrongIf(Heap, sh[t].cb)
     IN  MTDone([sh EXCEPT ![t] = Dead], wk, M,
                [thr EXCEPT ![t] = IF M.hook # Null THEN [pc |-> "hook", seen |-> 0, b |-> M.hook] ELSE Idle],
                Op("MTDtor", t, Null, Null, sh[t]))

\* the rest of release_strong_ref on the thread that ran the hook: release_weak_ref();
MTHookReturn(t) ==
  /\ ~uaf
  /\ thr[t].pc = "hook"
  /\ MTDone(sh, wk, ReleaseWeakRef(Heap, thr[t].b), [thr EXCEPT ![t] = Idle], last)

\* weak_ptr(const shared_ptr<Y>& other) from the thread's own shared_ptr
MTWCtorShared(t) ==
  /\ ~uaf
  /\ thr[t].pc = "idle"
  /\ ~wk[t].live
  /\ sh[t].live
  /\ MTDone(sh, [wk EXCEPT ![t] = Handle(sh[t].ptr, sh[t].cb)], AddWeakIf(Heap, sh[t].cb), thr,
            Op("MTWCtorShared", t, t, Null, Dead))

\* ~weak_ptr() on the thread's own weak_ptr
MTWDtor(t) ==
  /\ ~uaf
  /\ thr[t].pc = "idle"
  /\ wk[t].live
  /\ MTDone(sh, [wk EXCEPT ![t] = Dead], ReleaseWeakIf(Heap, wk[t].cb), thr,
            Op("MTWDtor", t, Null, Null, wk[t]))

MTNext ==
  \/ \E t \in Threads : MTLockRead(t)
  \/ \E t \in Threads : MTLockAdd(t)
  \/ \E t \in Threads : MTDtor(t)
  \/ \E t \in Threads : MTHookReturn(t)
  \/ \E t \in Threads : MTWCtorShared(t)
  \/ \E t \in Threads : MTWDtor(t)

SpecMT == MTInit /\ [][MTNext]_vars

\* ------------------------------------------------------------ typing
HandleStates == [live : BOOLEAN, ptr : 0..(2 * MaxAddr + MaxBlocks), cb : 0..MaxBlocks]

TypeOK ==
  /\ sh \in [SH -> HandleStates]
  /\ wk \in [WK -> HandleStates]
  /\ \A b \in Blocks : /\ blk[b].st \in {"none", "live", "freed", "unwound"}
                       /\ blk[b].kind \in {"none", "mem", "inplace"}
                       /\ blk[b].strong \in 0..(SizeMod - 1)
                       /\ blk[b].weak \in 0..(SizeMod - 1)
  /\ uaf \in BOOLEAN
  /\ hook \in 0..MaxBlocks
  /\ raised \in {"none", "bad_alloc", "ctor"}
  /\ thr \in [Threads -> [pc : {"idle", "lock", "hook"}, seen : 0..(SizeMod - 1), b : 0..MaxBlocks]]

\* the live shared_ptr / weak_ptr handles whose cb_ is block b
StrongHolders(b) == {s \in SH : sh[s].live /\ sh[s].cb = b}

WeakHolders(b) == {w \in WK : wk[w].live /\ wk[w].cb = b}

\* the blocks a successful new has produced
Allocated(b) == blk[b].st \in {"live", "freed"}

\* how often delete_data of block b has run
Destroyed(b) == Len(blk[b].calls)

\* the step just taken ran operation name; HookReturn, the tail of release_strong_ref, is
\* the one step that leaves `last` alone
Ran(name) == last'.op = name /\ ~(hook # Null /\ hook' = Null)

\* ------------------------------------------------------------ claims
\* C1: in every reachable state use_count() of a live shared_ptr with a block equals the
\* number of live shared_ptr handles whose cb_ is that block, and use_count() of a handle
\* with no block is 0.
C1_UseCountIsHolders ==
  \A s \in SH : sh[s].live =>
    UseCount(sh[s]) = IF sh[s].cb = Null THEN 0 ELSE Cardinality(StrongHolders(sh[s].cb))

\* C1 witness: two handles share one block after an assignment and both report 2
C1_Witness ==
  \E s, t \in SH : /\ s # t /\ sh[s].live /\ sh[t].live
                   /\ sh[s].cb # Null /\ sh[s].cb = sh[t].cb
                   /\ UseCount(sh[s]) = 2 /\ UseCount(sh[t]) = 2
                   /\ last.op = "AssignCopy"

\* C2: delete_data of a block runs at most once, and it runs exactly in the step that takes
\* the number of live strong handles of the block from positive to zero; a lock() on a
\* weak_ptr of a block whose delete_data has run returns a null shared_ptr and leaves the
\* strong count at 0.
C2_Step ==
  /\ \A b \in Blocks :
       /\ Destroyed(b)' <= 1
       /\ Destroyed(b)' >= Destroyed(b)
       /\ (Destroyed(b)' = Destroyed(b) + 1) <=> (StrongHolders(b) # {} /\ StrongHolders(b)' = {})
       /\ (Allocated(b)' /\ StrongHolders(b)' = {}) => Destroyed(b)' = 1
  /\ Ran("Lock") =>
       LET h == wk[last'.src]
       IN  (h.cb # Null /\ Destroyed(h.cb) = 1) =>
             /\ sh'[last'.dst] = SharedDefault
             /\ blk'[h.cb].strong = 0

\* C2: every step destroys the object at most once, exactly when the last strong holder goes, and lock() cannot revive it
C2_DestroyedOnce == [][C2_Step]_vars

\* C2 witness: a lock() on a weak_ptr whose block has destroyed its object returned null
C2_Witness ==
  /\ last.op = "Lock"
  /\ wk[last.src].live /\ wk[last.src].cb # Null
  /\ Destroyed(wk[last.src].cb) = 1
  /\ blk[wk[last.src].cb].strong = 0
  /\ sh[last.dst] = SharedDefault

\* C3: a block is freed (delete this) at most once, a freed block has both counters at 0,
\* its delete_data has run and returned before, no handle refers to it, and no operation
\* touches a block after it has been freed.
C3_FreedOnceAfterDestroy ==
  /\ ~uaf
  /\ \A b \in Blocks :
       /\ blk[b].frees <= 1
       /\ (blk[b].frees = 1) <=> (blk[b].st = "freed")
       /\ blk[b].st = "freed" =>
            /\ blk[b].strong = 0
            /\ blk[b].weak = 0
            /\ Destroyed(b) = 1
            /\ hook # b
            /\ StrongHolders(b) = {}
            /\ WeakHolders(b) = {}

\* C3 witness: a block outlived its object through a weak_ptr and was freed by ~weak_ptr
C3_Witness ==
  /\ last.op = "WDtor"
  /\ last.old.cb # Null
  /\ blk[last.old.cb].st = "freed"
  /\ blk[last.old.cb].frees = 1
  /\ ~uaf

\* C4: the aliasing copy constructor applied to a non-empty handle h and an address p yields
\* a handle whose get() is p, whose block is h's block and whose use_count() is h's previous
\* count plus 1; and a live handle holding an address other than its block's object keeps that
\* object alive: the object is not destroyed, and when the handle is the only strong holder
\* left its use_count() is 1.
C4_Step ==
  Ran("CtorAliasCopy") =>
    \A d, a \in SH : (d = last'.dst /\ a = last'.src /\ sh[a].cb # Null) =>
      /\ sh'[d].live
      /\ Get(sh'[d]) = last'.arg
      /\ sh'[d].cb = sh[a].cb
      /\ (UseCount(sh[d]))' = UseCount(sh[a]) + 1
      /\ (UseCount(sh[a]))' = UseCount(sh[a]) + 1

C4_KeepsAlive ==
  \A s \in SH : (sh[s].live /\ sh[s].cb # Null /\ sh[s].ptr \in AliasAddrs) =>
    /\ Destroyed(sh[s].cb) = 0
    /\ blk[sh[s].cb].st = "live"
    /\ StrongHolders(sh[s].cb) = {s} => UseCount(sh[s]) = 1

\* C4: every aliasing copy construction reports p and shares the block, and an aliasing handle keeps the object alive
C4_Aliasing == [][C4_Step]_vars /\ []C4_KeepsAlive

\* C4 witness: the other strong handle of the block was just destroyed or reset and an
\* aliasing handle, whose address is not the block's object, is the only holder left
C4_Witness ==
  /\ last.op \in {"Dtor", "Reset"}
  /\ last.old.cb # Null
  /\ \E s \in SH : /\ sh[s].live /\ sh[s].cb = last.old.cb
                   /\ sh[s].ptr \in AliasAddrs
                   /\ sh[s].ptr # blk[sh[s].cb].data
                   /\ StrongHolders(sh[s].cb) = {s}
                   /\ UseCount(sh[s]) = 1
                   /\ Destroyed(sh[s].cb) = 0

\* C5: the destruction action of a block built from a raw pointer r is only ever invoked on
\* r itself, never on an aliasing handle's address, whichever handle is released last.
C5_DeleterGetsRawPointer ==
  \A b \in Blocks : blk[b].kind = "mem" =>
    \A i \in 1..Len(blk[b].calls) : blk[b].calls[i] = blk[b].owns /\ blk[b].calls[i] \in RawAddrs

\* C5 witness: the last strong holder released was an aliasing handle and the action ran on r
C5_Witness ==
  /\ last.op \in {"Dtor", "Reset"}
  /\ last.old.cb # Null
  /\ last.old.ptr \in AliasAddrs
  /\ blk[last.old.cb].kind = "mem"
  /\ blk[last.old.cb].calls = <<blk[last.old.cb].owns>>
  /\ last.old.ptr # blk[last.old.cb].owns

\* C6: move construction of a shared_ptr (plain and aliasing) gives the new handle the
\* source's block (and the source's, resp. the supplied, address), leaves the source with
\* get() = nullptr and use_count() = 0, and changes no block; the same for weak_ptr.
C6_Step ==
  /\ (Ran("CtorMove") \/ Ran("CtorAliasMove")) =>
       \A d, a \in SH : (d = last'.dst /\ a = last'.src) =>
         /\ sh'[d].live
         /\ sh'[d].cb = sh[a].cb
         /\ Get(sh'[d]) = IF last'.op = "CtorMove" THEN sh[a].ptr ELSE last'.arg
         /\ Get(sh'[a]) = Null
         /\ sh'[a].cb = Null
         /\ (UseCount(sh[a]))' = 0
         /\ blk' = blk
  /\ Ran("WCtorMove") =>
       \A d, a \in WK : (d = last'.dst /\ a = last'.src) =>
         /\ wk'[d] = Handle(wk[a].ptr, wk[a].cb)
         /\ wk'[a] = Handle(Null, Null)
         /\ blk' = blk

\* C6: every move construction transfers the block, nulls the source and changes no counter
C6_MoveConstruction == [][C6_Step]_vars

\* C6 witness: an aliasing move construction took a block from a handle that is now null
C6_Witness ==
  /\ last.op = "CtorAliasMove"
  /\ sh[last.dst].live /\ sh[last.dst].cb # Null
  /\ sh[last.dst].ptr = last.arg
  /\ sh[last.src] = Handle(Null, Null)
  /\ UseCount(sh[last.dst]) = 1

\* C7 as stated: after b = std::move(a), use_count() read through b equals use_count() read
\* through a before, whatever b held before.
C7_Original ==
  [][Ran("AssignMove") =>
       \A d, a \in SH : (d = last'.dst /\ a = last'.src) =>
         (UseCount(sh[d]))' = UseCount(sh[a])]_vars

\* C7 amended: after b = std::move(a), use_count() read through b equals use_count() read
\* through a before, except when b is another handle that already held a's block: then b's
\* own reference is released and the count is one less.  a is left null unless a is b.
C7_Step ==
  Ran("AssignMove") =>
    \A d, a \in SH : (d = last'.dst /\ a = last'.src) =>
      /\ (UseCount(sh[d]))' =
           UseCount(sh[a]) - (IF d # a /\ sh[a].cb # Null /\ sh[d].cb = sh[a].cb THEN 1 ELSE 0)
      /\ sh'[d] = sh[a]
      /\ d # a => sh'[a] = Handle(Null, Null)

\* C7 amended: every move assignment keeps the count, less one when the target already held the block
C7_MoveAssignment == [][C7_Step]_vars

\* C7 witness: b = std::move(a) ran with b another holder of a's block
C7_Witness ==
  /\ last.op = "AssignMove"
  /\ last.dst # last.src
  /\ last.old.cb # Null
  /\ sh[last.dst].cb = last.old.cb
  /\ sh[last.src] = Handle(Null, Null)
  /\ UseCount(sh[last.dst]) = 1

\* C8 as stated: copy construction and copy assignment from a non-empty a raise the count of
\* a's block by exactly 1 and copy a's address, whatever the target (a handle other than a)
\* held before; destroying a holder lowers the count by exactly 1.
C8_Original ==
  [][/\ (Ran("CtorCopy") \/ Ran("AssignCopy")) =>
          \A d, a \in SH : (d = last'.dst /\ a = last'.src /\ d # a /\ sh[a].cb # Null) =>
            /\ blk'[sh[a].cb].strong = blk[sh[a].cb].strong + 1
            /\ sh'[d] = sh[a]
     /\ Ran("Dtor") =>
          \A d \in SH : (d = last'.dst /\ sh[d].cb # Null) =>
            blk'[sh[d].cb].strong = blk[sh[d].cb].strong - 1]_vars

\* C8 amended: copy construction from a non-empty a raises the count of a's block by exactly
\* 1; copy assignment b = a raises it by exactly 1 when b did not hold a's block and leaves it
\* unchanged when b already held it (b = a included); both copy a's address and block into
\* the target; destroying a holder lowers the count by exactly 1.
C8_Step ==
  /\ (Ran("CtorCopy") \/ Ran("AssignCopy")) =>
       \A d, a \in SH : (d = last'.dst /\ a = last'.src /\ sh[a].cb # Null) =>
         /\ blk'[sh[a].cb].strong =
              blk[sh[a].cb].strong + (IF sh[d].live /\ sh[d].cb = sh[a].cb THEN 0 ELSE 1)
         /\ sh'[d] = sh[a]
  /\ Ran("Dtor") =>
       \A d \in SH : (d = last'.dst /\ sh[d].cb # Null) =>
         blk'[sh[d].cb].strong = blk[sh[d].cb].strong - 1

\* C8 amended: every copy raises the count by one, by none when the target already held the block
C8_Copy == [][C8_Step]_vars

\* C8 witness: b = a ran with b another holder of a's block; the count is still 2
C8_Witness ==
  /\ last.op = "AssignCopy"
  /\ last.dst # last.src
  /\ last.old.cb # Null
  /\ sh[last.dst].cb = last.old.cb
  /\ sh[last.src].cb = last.old.cb
  /\ UseCount(sh[last.dst]) = 2

\* C9: lock() on a weak_ptr with no block or with a block whose strong count is 0 returns a
\* null shared_ptr and changes no counter; otherwise it returns a shared_ptr with the
\* weak_ptr's block and address, the strong count one higher and everything else unchanged.
C9_Step ==
  Ran("Lock") =>
    \A d \in SH, w \in WK : (d = last'.dst /\ w = last'.src) =>
      IF wk[w].cb = Null \/ blk[wk[w].cb].strong = 0
      THEN /\ sh'[d] = SharedDefault
           /\ Get(sh'[d]) = Null
           /\ (UseCount(sh[d]))' = 0
           /\ blk' = blk
      ELSE /\ sh'[d] = Handle(wk[w].ptr, wk[w].cb)
           /\ blk' = [blk EXCEPT ![wk[w].cb].strong = @ + 1]
           /\ wk' = wk

\* C9: every lock() returns null without touching a counter, or a new holder with the strong count one higher
C9_Lock == [][C9_Step]_vars

\* C9 witness: a lock() on a weak_ptr of a live object returned a second strong holder
C9_Witness ==
  /\ last.op = "Lock"
  /\ sh[last.dst].cb # Null
  /\ sh[last.dst].ptr = wk[last.src].ptr
  /\ sh[last.dst].cb = wk[last.src].cb
  /\ UseCount(sh[last.dst]) = 2
  /\ blk[sh[last.dst].cb].weak = 2

\* C10: when shared_ptr(ptr, deleter) fails to allocate its control block the deleter runs on
\* ptr exactly once, no block and no handle come into being and bad_alloc reaches the
\* caller; when the allocation succeeds the constructor does not run the deleter.
C10_Step ==
  \A s \in SH, r \in RawAddrs :
    /\ CtorRaw(s, r, FALSE) =>
         /\ raised' = "bad_alloc"
         /\ orphan' = <<r>>
         /\ blk' = blk
         /\ sh' = sh /\ wk' = wk
         /\ ~sh'[s].live
    /\ CtorRaw(s, r, TRUE) =>
         /\ raised' = "none"
         /\ orphan' = <<>>
         /\ sh'[s].live /\ sh'[s].ptr = r /\ sh'[s].cb # Null
         /\ blk[sh'[s].cb].st = "none"
         /\ blk'[sh'[s].cb].st = "live"
         /\ blk'[sh'[s].cb].calls = <<>>

\* C10: every failed allocation in shared_ptr(ptr, deleter) runs the deleter once on ptr and throws
C10_CtorAllocationFailure == [][C10_Step]_vars

\* C10 witness: the constructor has just failed: the deleter ran once on the pointer, the
\* exception is on its way, the handle does not exist and neither does any block
C10_Witness ==
  /\ last.op = "CtorRaw"
  /\ raised = "bad_alloc"
  /\ orphan = <<last.arg>>
  /\ ~sh[last.dst].live
  /\ \A b \in Blocks : blk[b].st = "none"

\* C11: when T's constructor fails inside make_shared the block's storage is given back
\* without delete_data ever running for it, no handle comes into being, no other block and no
\* handle changes and the failure reaches the caller; when the allocation itself fails nothing
\* is constructed and nothing destroyed.  A block unwound this way never has a holder, never
\* runs its hook and is never freed a second time.
C11_Step ==
  \A s \in SH :
    /\ MakeShared(s, TRUE, FALSE) =>
         /\ raised' = "ctor"
         /\ sh' = sh /\ wk' = wk
         /\ ~sh'[s].live
         /\ hook' = Null
         /\ \E b \in Blocks : /\ blk[b].st = "none"
                              /\ blk'[b].st = "unwound"
                              /\ blk'[b].calls = <<>>
                              /\ blk'[b].frees = 0
                              /\ \A c \in Blocks \ {b} : blk'[c] = blk[c]
    /\ MakeShared(s, FALSE, FALSE) =>
         /\ raised' = "bad_alloc"
         /\ orphan' = <<>>
         /\ blk' = blk
         /\ sh' = sh /\ wk' = wk
         /\ ~sh'[s].live

C11_Unwound ==
  \A b \in Blocks : blk[b].st = "unwound" =>
    /\ Destroyed(b) = 0
    /\ blk[b].frees = 0
    /\ hook # b
    /\ StrongHolders(b) = {}
    /\ WeakHolders(b) = {}

\* C11: every failure inside make_shared gives the storage back without destroying an object and without a handle
C11_MakeSharedFailure == [][C11_Step]_vars /\ []C11_Unwound

\* C11 witness: T's constructor has just thrown inside make_shared: the exception is on its
\* way, the slot holds no handle, the block is unwound and its hook never ran
C11_Witness ==
  /\ last.op = "MakeShared"
  /\ raised = "ctor"
  /\ ~sh[last.dst].live
  /\ \E b \in Blocks : /\ blk[b].st = "unwound"
                       /\ Destroyed(b) = 0
                       /\ StrongHolders(b) = {}

\* the blocks whose storage an allocation has handed out so far
Allocations == {b \in Blocks : blk[b].st # "none"}

\* C12: a successful make_shared allocates exactly one block, an inplace block, and returns a
\* handle whose get() is the address of the object embedded in that block and whose
\* use_count() is 1, with the block's weak count 1; no other block and no other handle changes.
C12_Step ==
  \A s \in SH :
    MakeShared(s, TRUE, TRUE) =>
      /\ raised' = "none"
      /\ Cardinality(Allocations') = Cardinality(Allocations) + 1
      /\ \E b \in Allocations' \ Allocations :
           /\ sh' = [sh EXCEPT ![s] = Handle(GetPtr(b), b)]
           /\ blk'[b].st = "live"
           /\ blk'[b].kind = "inplace"
           /\ Get(sh'[s]) = blk'[b].data
           /\ (UseCount(sh[s]))' = 1
           /\ blk'[b].strong = InitialStrong
           /\ blk'[b].weak = InitialWeak
           /\ blk'[b].calls = <<>>
           /\ \A c \in Blocks \ {b} : blk'[c] = blk[c]
      /\ wk' = wk

\* C12: every successful make_shared is one allocation and yields the only holder, counts 1 and 1
C12_MakeShared == [][C12_Step]_vars

\* C12 witness: make_shared has just returned a handle on an inplace block with counts 1 and 1
C12_Witness ==
  /\ last.op = "MakeShared"
  /\ raised = "none"
  /\ sh[last.dst].live /\ sh[last.dst].cb # Null
  /\ blk[sh[last.dst].cb].kind = "inplace"
  /\ Get(sh[last.dst]) = GetPtr(sh[last.dst].cb)
  /\ UseCount(sh[last.dst]) = 1
  /\ blk[sh[last.dst].cb].weak = 1

\* C13: reset(new_ptr) whose replacement is constructed releases the handle's previous strong
\* reference exactly once (the previous object is destroyed exactly when that was the last
\* one) and leaves the handle on a new block with the new pointer; when the replacement's
\* control block cannot be allocated, the handle's observer pointer and block, every block's
\* counters and the previously managed object are unchanged and bad_alloc reaches the caller.
C13_Step ==
  \A s \in SH, r \in RawAddrs :
    /\ ResetRaw(s, r, FALSE) =>
         /\ raised' = "bad_alloc"
         /\ sh' = sh /\ wk' = wk
         /\ blk' = blk
         /\ hook' = Null
    /\ ResetRaw(s, r, TRUE) =>
         /\ raised' = "none"
         /\ sh'[s].live /\ Get(sh'[s]) = r
         /\ sh'[s].cb # Null /\ blk[sh'[s].cb].st = "none"
         /\ (UseCount(sh[s]))' = 1
         /\ \A b \in Blocks : sh[s].cb = b =>
              /\ blk'[b].strong = blk[b].strong - 1
              /\ blk'[b].weak = blk[b].weak
              /\ Destroyed(b)' = Destroyed(b) + (IF blk[b].strong = 1 THEN 1 ELSE 0)
         /\ \A b \in Blocks \ {sh[s].cb, sh'[s].cb} : blk'[b] = blk[b]

\* C13: every reset(new_ptr) releases the old reference once on success and changes nothing on failure
C13_ResetRaw == [][C13_Step]_vars

\* C13 witness: reset(new_ptr) on the only holder of a live object has just failed: the handle
\* still holds its block, the count is still 1 and the object has not been destroyed
C13_Witness ==
  /\ last.op = "ResetRaw"
  /\ raised = "bad_alloc"
  /\ last.old.cb # Null
  /\ sh[last.dst] = last.old
  /\ UseCount(sh[last.dst]) = 1
  /\ blk[last.old.cb].st = "live"
  /\ Destroyed(last.old.cb) = 0

\* the implicit weak reference of block b: held while the object has not been destroyed and
\* while its destruction hook is still running
ImplicitWeak(b) == IF Destroyed(b) = 0 \/ hook = b THEN 1 ELSE 0

\* C14: for every block that is allocated and not freed, weak_refs_ is the number of live
\* weak_ptr handles on the block plus the implicit reference, which is there exactly until the
\* last strong holder is gone and delete_data has returned; weak_refs_ is at least 1 while a
\* strong holder exists, and a freed block has both counters at 0.
C14_Counts ==
  \A b \in Blocks :
    /\ blk[b].st = "live" =>
         /\ blk[b].weak = Cardinality(WeakHolders(b)) + ImplicitWeak(b)
         /\ (StrongHolders(b) # {} \/ hook = b) <=> ImplicitWeak(b) = 1
         /\ StrongHolders(b) # {} => blk[b].weak >= 1
         /\ blk[b].weak >= 1
    /\ blk[b].st = "freed" => blk[b].weak = 0 /\ blk[b].strong = 0

\* a block's counters start at 1 and 1, and a step changes a counter by at most one up or one
\* down as an integer: a decrement at 0 would show as a jump to SizeMod - 1
C14_Step ==
  \A b \in Blocks :
    /\ (blk[b].st = "none" /\ blk'[b].st = "live") =>
         blk'[b].strong = InitialStrong /\ blk'[b].weak = InitialWeak
    /\ blk[b].st = "live" =>
         /\ blk'[b].strong \in {blk[b].strong - 1, blk[b].strong, blk[b].strong + 1}
         /\ blk'[b].weak \in {blk[b].weak - 1, blk[b].weak, blk[b].weak + 1}
    /\ blk[b].st = "freed" => blk'[b] = blk[b]

\* C14: weak_refs_ counts the live weak handles plus the implicit reference, and no counter is decremented at 0
C14_WeakCount == [][C14_Step]_vars /\ []C14_Counts

\* C14 witness: the object of a block is destroyed and its hook has returned, so the implicit
\* reference is gone, and the one weak_ptr left on the block is all weak_refs_ counts
C14_Witness ==
  \E b \in Blocks : /\ blk[b].st = "live"
                    /\ Destroyed(b) = 1
                    /\ hook = Null
                    /\ StrongHolders(b) = {}
                    /\ Cardinality(WeakHolders(b)) = 1
                    /\ blk[b].weak = 1
                    /\ blk[b].strong = 0

\* C15: release_strong_ref enters the destruction hook with the strong count at 0 and the
\* implicit weak reference still held; while the hook runs the block stays allocated, also
\* when the hook destroys or resets the last weak_ptr on it; the implicit reference is
\* released in the step in which the hook returns, and the block is freed in that step
\* exactly when no weak_ptr is left on it; no block is ever freed twice.
C15_Step ==
  /\ \A b \in Blocks :
       /\ (hook = Null /\ hook' = b) =>
            /\ blk'[b].strong = 0
            /\ Destroyed(b)' = Destroyed(b) + 1
            /\ blk'[b].weak = blk[b].weak
            /\ blk'[b].st = "live"
       /\ (hook = b /\ hook' # Null) =>
            /\ hook' = b
            /\ blk'[b].st = "live"
            /\ blk'[b].frees = 0
            /\ blk'[b].weak = Cardinality(WeakHolders(b)') + 1
       /\ (hook = b /\ hook' = Null) =>
            /\ blk'[b].weak = blk[b].weak - 1
            /\ (blk'[b].st = "freed") <=> (WeakHolders(b) = {})
            /\ blk'[b].frees = IF WeakHolders(b) = {} THEN 1 ELSE 0
       /\ blk'[b].frees <= 1
       /\ blk'[b].frees >= blk[b].frees

C15_InHook ==
  \A b \in Blocks : hook = b =>
    /\ blk[b].st = "live"
    /\ blk[b].frees = 0
    /\ blk[b].strong = 0
    /\ blk[b].weak >= 1
    /\ Destroyed(b) = 1

\* C15: the hook runs before the implicit weak reference is released, and the block outlives the hook
C15_HookBeforeWeakRelease == [][C15_Step]_vars /\ []C15_InHook

\* C15 witness: the hook of a block is running and has just destroyed or reset the last
\* weak_ptr on that block; the block is still allocated, held by the implicit reference alone
C15_Witness ==
  /\ hook # Null
  /\ last.op \in {"WDtor", "WReset"}
  /\ last.old.cb = hook
  /\ WeakHolders(hook) = {}
  /\ blk[hook].st = "live"
  /\ blk[hook].weak = 1
  /\ blk[hook].frees = 0

\* C16: in every reachable state every live shared_ptr and weak_ptr whose cb_ is null has a
\* null observer pointer, so that get() returns nullptr (operator bool and the comparison
\* with nullptr are both computed from get()).
C16_NullBlockNullPointer ==
  /\ \A s \in SH : (sh[s].live /\ sh[s].cb = Null) => Get(sh[s]) = Null
  /\ \A w \in WK : (wk[w].live /\ wk[w].cb = Null) => wk[w].ptr = Null

\* C17: for every block a successful allocation produced: once no live shared_ptr and no live
\* weak_ptr refers to it and no release on it is still in progress (its hook is not running),
\* its object has been destroyed and the block has been freed, whichever kind of handle went
\* last; and a freed block has no strong and no weak handle referring to it.
C17_NoLeak ==
  \A b \in Blocks :
    /\ (Allocated(b) /\ StrongHolders(b) = {} /\ WeakHolders(b) = {} /\ hook # b) =>
         /\ Destroyed(b) = 1
         /\ blk[b].st = "freed"
         /\ blk[b].frees = 1
    /\ (Allocated(b) /\ StrongHolders(b) = {}) => Destroyed(b) = 1
    /\ blk[b].st = "freed" => (StrongHolders(b) = {} /\ WeakHolders(b) = {})
    /\ (StrongHolders(b) # {} \/ WeakHolders(b) # {}) => blk[b].st = "live"

\* C17 witness: the last handle of a block to go was a strong one: ~shared_ptr ran the hook
\* and, no weak_ptr being left when it returned, freed the block
C17_Witness ==
  /\ last.op = "Dtor"
  /\ last.old.cb # Null
  /\ hook = Null
  /\ blk[last.old.cb].st = "freed"
  /\ Destroyed(last.old.cb) = 1
  /\ \A s \in SH : ~sh[s].live
  /\ \A w \in WK : ~wk[w].live

\* C18: a lock() called from inside the destruction hook of a block, on a weak_ptr of that
\* block, returns a null shared_ptr and changes no counter; while a hook runs the strong count
\* of its block is 0 and the block has no strong holder, and delete_data of a block is never
\* entered a second time.
C18_Step ==
  /\ (Ran("Lock") /\ hook # Null) =>
       \A d \in SH, w \in WK : (d = last'.dst /\ w = last'.src /\ wk[w].cb = hook) =>
         /\ sh'[d] = SharedDefault
         /\ (UseCount(sh[d]))' = 0
         /\ blk' = blk
         /\ hook' = hook
  /\ \A b \in Blocks : Destroyed(b)' <= 1

C18_NoHolderInHook ==
  \A b \in Blocks : hook = b => (blk[b].strong = 0 /\ StrongHolders(b) = {})

\* C18: every lock() made inside the hook returns null, so the object is not revived and the hook not re-entered
C18_LockInHook == [][C18_Step]_vars /\ []C18_NoHolderInHook

\* C18 witness: the hook of a block is running and a lock() on a weak_ptr of that block has
\* just returned a null shared_ptr; the strong count is still 0
C18_Witness ==
  /\ hook # Null
  /\ last.op = "Lock"
  /\ wk[last.src].live /\ wk[last.src].cb = hook
  /\ sh[last.dst] = SharedDefault
  /\ blk[hook].strong = 0
  /\ Destroyed(hook) = 1

\* C19: a = a and a = std::move(a) on a shared_ptr leave a's observer pointer and block, every
\* block's counters and every object as they were, also when a is the only strong holder; and
\* w = w and w = std::move(w) on a weak_ptr leave w, every counter and every block as they were,
\* also when w holds the last reference to a block whose object is already destroyed.
C19_Step ==
  /\ ((Ran("AssignCopy") \/ Ran("AssignMove")) /\ last'.dst = last'.src) =>
       /\ sh' = sh
       /\ wk' = wk
       /\ blk' = blk
       /\ hook' = Null
       /\ uaf' = uaf
  /\ ((Ran("WAssignCopy") \/ Ran("WAssignMove")) /\ last'.dst = last'.src) =>
       /\ sh' = sh
       /\ wk' = wk
       /\ blk' = blk
       /\ hook' = Null
       /\ uaf' = uaf

\* C19: every self-assignment of a shared_ptr or a weak_ptr changes no handle, no counter and no object
C19_SelfAssignment == [][C19_Step]_vars

\* C19 witness: a = a has just run on the only strong holder of a live object: the count is
\* still 1, the handle is what it was and the object has not been destroyed
C19_Witness ==
  /\ last.op = "AssignCopy"
  /\ last.dst = last.src
  /\ sh[last.dst].live /\ sh[last.dst].cb # Null
  /\ sh[last.dst] = last.old
  /\ UseCount(sh[last.dst]) = 1
  /\ StrongHolders(sh[last.dst].cb) = {last.dst}
  /\ Destroyed(sh[last.dst].cb) = 0
  /\ blk[sh[last.dst].cb].st = "live"

\* a live strong handle refers to block b although delete_data of b has run
Resurrected(b) == Destroyed(b) >= 1 /\ StrongHolders(b) # {}

\* C20: with two unsynchronized threads and lock() taken as a read of the strong count
\* followed by a separate add_strong_ref: the second half of a lock() that read a non-zero
\* count returns a shared_ptr on the weak_ptr's block and raises the count by one whatever the
\* count has become, so when another thread released the last strong handle in between (the
\* count is 0 and delete_data has run) the result is a non-null shared_ptr to a destroyed
\* object; and that interleaving is the only way a destroyed object gets a strong holder.
C20_Step ==
  /\ \A t \in Threads :
       MTLockAdd(t) =>
         IF thr[t].seen = 0
         THEN sh'[t] = SharedDefault /\ blk' = blk
         ELSE /\ sh'[t] = Handle(wk[t].ptr, wk[t].cb)
              /\ blk'[wk[t].cb].strong = blk[wk[t].cb].strong + 1
              /\ Destroyed(wk[t].cb) >= 1 => Resurrected(wk[t].cb)'
  /\ \A b \in Blocks :
       (~Resurrected(b) /\ Resurrected(b)') =>
         \E t \in Threads : /\ thr[t].pc = "lock" /\ thr'[t].pc = "idle"
                            /\ thr[t].seen > 0
                            /\ wk[t].cb = b
                            /\ blk[b].strong = 0
                            /\ sh'[t].live /\ sh'[t].cb = b

\* C20: a lock() interleaved with the last release returns a strong handle on a destroyed object
C20_LockRace == [][C20_Step]_vars

\* C20 witness: lock() on one thread has returned a non-null shared_ptr, the only strong
\* holder, to an object whose destruction hook another thread has run to its end
C20_Witness ==
  \E t \in Threads :
    /\ last.op = "MTLockAdd"
    /\ last.dst = t
    /\ sh[t].live /\ sh[t].cb # Null
    /\ Get(sh[t]) # Null
    /\ Destroyed(sh[t].cb) = 1
    /\ StrongHolders(sh[t].cb) = {t}
    /\ UseCount(sh[t]) = 1
    /\ \A u \in Threads : thr[u].pc = "idle"
    /\ blk[sh[t].cb].st = "live"
    /\ ~uaf

====
